---------------------------- MODULE Spec2Model ----------------------------
(***************************************************************************)
(* A model of huelib: the response normalizer and the resource facade of   *)
(* src/src/bridge/mod.rs, the modifiers of src/src/resource/light.rs,      *)
(* schedule.rs and resourcelink.rs, and the Link codec of resourcelink.rs. *)
(*                                                                         *)
(* JSON values are modelled by shape:                                      *)
(*   [t |-> "array",  items   |-> <<object, ...>>]   an array of objects    *)
(*   [t |-> "object", members |-> key :> string]     a flat object          *)
(*   [t |-> "map",    entries |-> id  :> object]     an object of objects   *)
(* An object is a function from its keys to its values.                    *)
(***************************************************************************)
EXTENDS Integers, Sequences, FiniteSets, TLC

VARIABLES
    bridge,      \* the Bridge handle: username, ip_address, api_url
    call,        \* the facade operation last invoked, with its arguments
    request,     \* the HTTP request api_request issued for it
    sent,        \* the requests put on the wire for it, in order
    response,    \* what the transport returned for it
    result,      \* the Result returned to the caller
    threads,     \* the calls under way on the shared handle, per thread
    modifier,    \* the modifier value under construction
    wire,        \* the serialization of that value, once serialized
    linkValue,   \* the Link that was serialized, if the string is one
    linkInput,   \* the string handed to Link's Deserialize
    linkResult   \* what Link's Deserialize returned for it

vars == <<bridge, call, request, sent, response, result, threads, modifier,
          wire, linkValue, linkInput, linkResult>>

bridgeVars == <<bridge, call, request, sent, response, result, threads>>
modifierVars == <<modifier, wire>>
linkVars == <<linkValue, linkInput, linkResult>>

(***************************************************************************)
(* Bounds of the model.                                                    *)
(***************************************************************************)
\* Longest array of outcome records a response carries.
MaxRecords == 3
\* Most segments of a string handed to Link's Deserialize.
MaxSegments == 4

(***************************************************************************)
(* Option<T>: None is the empty set, Some(x) the singleton.                *)
(***************************************************************************)
None == {}
Some(x) == {x}

(***************************************************************************)
(* Result values.                                                          *)
(***************************************************************************)
Ok(v) == [kind |-> "Ok", value |-> v]
BridgeError(e) ==
    [kind |-> "BridgeError", type |-> e.type, address |-> e.address,
     description |-> e.description]
DecodeError == [kind |-> "DecodeError"]
\* The value of type ().
Unit == <<>>
\* The transport's error e carried by the library's error: From::from(e).
TransportError(e) == [kind |-> "TransportError", cause |-> e.cause]

(***************************************************************************)
(* The inputs: what a bridge may answer.                                   *)
(***************************************************************************)
Ids == {"1", "2"}
Addresses == {"192.168.1.2", "10.0.0.7"}
Usernames == {"user"}

\* The collections of the facade.
Collections ==
    {"lights", "groups", "scenes", "schedules", "resourcelinks", "sensors",
     "rules"}

SuccessRecords ==
    {[success |-> ("/lights/1" :> "deleted")], [success |-> [id |-> "5"]]}
ErrorRecords ==
    {[error |-> [type |-> 3, address |-> "/lights/1",
                 description |-> "resource not available"]],
     [error |-> [type |-> 7, address |-> "/lights/2",
                 description |-> "invalid value"]]}
\* Objects that are no outcome record: an error without its members, and an
\* object tagged neither success nor error.
OtherRecords ==
    {[error |-> [type |-> 3]], [unknown |-> [id |-> "5"]]}
Records == SuccessRecords \cup ErrorRecords \cup OtherRecords

ArraysOf(S, n) == UNION {[1..k -> S] : k \in 0..n}

\* The body of a resource: name stands for the required attributes,
\* productname for the optional ones; a body may carry a member "id".
Bodies ==
    {b \in UNION {[K -> {"a", "b", "p", "9"}] :
                    K \in SUBSET {"id", "name", "productname"}} :
        /\ "id" \in DOMAIN b => b["id"] = "9"
        /\ "name" \in DOMAIN b => b["name"] \in {"a", "b"}
        /\ "productname" \in DOMAIN b => b["productname"] = "p"}

ArrayPayloads ==
    {[t |-> "array", items |-> s] : s \in ArraysOf(Records, MaxRecords)}
ObjectPayloads == {[t |-> "object", members |-> b] : b \in Bodies}
MapPayloads ==
    {[t |-> "map", entries |-> m] : m \in UNION {[K -> Bodies] : K \in SUBSET Ids}}
Payloads == ArrayPayloads \cup ObjectPayloads \cup MapPayloads

\* The errors request.call() and request.send_json(v) may return.
TransportFailures ==
    {[t |-> "transport_error", cause |-> c] : c \in {"refused", "timeout"}}
TransportResults == Payloads \cup TransportFailures

(***************************************************************************)
(* crate::response (not among the sources): Response<T> is the enum        *)
(* Success(T) | Error(Error), read from an object with the single key      *)
(* success or error; an Error has a type, an address and a description.    *)
(***************************************************************************)
IsResponse(item) ==
    \/ DOMAIN item = {"success"}
    \/ /\ DOMAIN item = {"error"}
       /\ DOMAIN item.error = {"type", "address", "description"}

\* Response::into_result: Success(v) is Ok(v), Error(e) is Err(e).
into_result(item) ==
    IF DOMAIN item = {"success"} THEN Ok(item.success)
    ELSE BridgeError(item.error)

(***************************************************************************)
(* Decoding a JSON value into a target type (serde_json::from_value).      *)
(***************************************************************************)
\* Light's derived Deserialize: id is skipped (it takes its default, the
\* empty string, whatever the body holds), a required attribute must be
\* present, an optional one is None when absent, other members are ignored.
DeserializeLight(body) ==
    IF "name" \in DOMAIN body
    THEN Ok([id |-> "",
             name |-> body["name"],
             product_name |-> IF "productname" \in DOMAIN body
                              THEN Some(body["productname"]) ELSE None])
    ELSE DecodeError

\* Vec<Response<JsonValue>>: an array each of whose items is a Response.
DeserializeResponses(json) ==
    IF json.t = "array" /\ \A i \in DOMAIN json.items : IsResponse(json.items[i])
    THEN Ok(json.items)
    ELSE DecodeError

\* HashMap<String, Light>: an object each of whose values is a Light.
DeserializeLightMap(json) ==
    IF json.t = "map"
    THEN IF \A k \in DOMAIN json.entries : DeserializeLight(json.entries[k]).kind = "Ok"
         THEN Ok([k \in DOMAIN json.entries |-> DeserializeLight(json.entries[k]).value])
         ELSE DecodeError
    ELSE IF json.t = "object" /\ DOMAIN json.members = {}
    THEN Ok([k \in {} |-> k])
    ELSE DecodeError

Targets == {"JsonValue", "Responses", "Light", "LightMap"}

from_value(T, json) ==
    CASE T = "JsonValue" -> Ok(json)
      [] T = "Responses" -> DeserializeResponses(json)
      [] T = "Light" ->
            IF json.t = "object" THEN DeserializeLight(json.members)
            ELSE DecodeError
      [] T = "LightMap" -> DeserializeLightMap(json)

(***************************************************************************)
(* bridge/mod.rs: parse_response.                                          *)
(***************************************************************************)
Last(s) == s[Len(s)]

\* parse_response looking at the first record instead of the last.
parse_response_first(T, json) ==
    LET v == DeserializeResponses(json)
    IN  IF v.kind = "Ok" /\ Len(v.value) > 0
           /\ into_result(Head(v.value)).kind # "Ok"
        THEN into_result(Head(v.value))
        ELSE from_value(T, json)

\* parse_response failing on an error record wherever it stands.
parse_response_any(T, json) ==
    LET v == DeserializeResponses(json)
    IN  IF v.kind = "Ok"
           /\ \E i \in DOMAIN v.value : into_result(v.value[i]).kind # "Ok"
        THEN LET i == CHOOSE i \in DOMAIN v.value :
                        into_result(v.value[i]).kind # "Ok"
             IN  into_result(v.value[i])
        ELSE from_value(T, json)

\* parse_response giving up when the payload is no array of records.
parse_response_strict(T, json) ==
    LET v == DeserializeResponses(json)
    IN  IF v.kind # "Ok" THEN v
        ELSE IF Len(v.value) > 0 /\ into_result(Last(v.value)).kind # "Ok"
        THEN into_result(Last(v.value))
        ELSE from_value(T, json)

parse_response(T, json) ==
    LET v == DeserializeResponses(json)
    IN  IF v.kind = "Ok" /\ Len(v.value) > 0
           /\ into_result(Last(v.value)).kind # "Ok"
        THEN into_result(Last(v.value))
        ELSE from_value(T, json)

(***************************************************************************)
(* bridge/mod.rs: Bridge.                                                  *)
(***************************************************************************)
Bridge_new(ip_address, username) ==
    [api_url |-> <<"http://", ip_address, "/api/", username>>,
     username |-> username,
     ip_address |-> ip_address]

\* The Result of api_request::<T>: the transport's error as it is, or the
\* body read as T.
api_request(T, transport) ==
    IF transport \in TransportFailures THEN TransportError(transport)
    ELSE from_value(T, transport)

\* The request api_request issues: format!("{}/{}", api_url, url_suffix).
Request(method, url_suffix) ==
    [method |-> method, url |-> <<bridge.api_url, "/", url_suffix>>]

\* api_request issuing the request again after a transport error.
Sent_retry(req, transport) ==
    IF transport \in TransportFailures THEN <<req, req>> ELSE <<req>>

\* The requests api_request puts on the wire: request.send_json(v) or
\* request.call() once, and the ? returns whatever that one yields.
Sent(req, transport) == <<req>>

\* with_id returning the resource as it was decoded.
with_id_unset(resource, id) == resource

\* Light::with_id (and Schedule::with_id, Resourcelink::with_id).
with_id(resource, id) == [resource EXCEPT !.id = id]

\* The Result of the ? after api_request, then parse_response.
Normalized(T, transport) ==
    LET json == api_request("JsonValue", transport)
    IN  IF json.kind # "Ok" THEN json ELSE parse_response(T, json.value)

\* The threads that share the handle (a &Bridge, or a clone of it).
Threads == {"t1", "t2"}
IdleThread == [pc |-> "idle"]

\* No call is under way: the caller holds no Result of an earlier one.
Idle == call.op = "none"

NoCall == [op |-> "none"]
NoRequest == [method |-> "none"]
NoResponse == [t |-> "none"]
NoResult == [kind |-> "none"]

\* get_light, get_group, get_scene, get_schedule, get_resourcelink,
\* get_sensor, get_rule: the same body up to the collection's name.
get_one ==
    /\ Idle
    /\ \E c \in Collections, id \in Ids, transport \in TransportResults :
        /\ call' = [op |-> "get_one", name |-> c, id |-> Some(id),
                    target |-> "Light"]
        /\ request' = Request("Get", <<c, "/", id>>)
        /\ sent' = Sent(Request("Get", <<c, "/", id>>), transport)
        /\ response' = transport
        /\ LET light == Normalized("Light", transport)
           IN  result' = IF light.kind # "Ok" THEN light
                         ELSE Ok(with_id(light.value, id))
        /\ UNCHANGED <<bridge, threads, modifierVars, linkVars>>

\* The orders in which a HashMap may hand out the keys K.
Orders(K) ==
    {s \in [1..Cardinality(K) -> K] : \A i, j \in DOMAIN s : i # j => s[i] # s[j]}

\* collect_with_id numbering the members instead of using their keys.
collect_with_index(map, keys) ==
    [i \in DOMAIN keys |-> with_id(map[keys[i]], ToString(i - 1))]

\* map.into_iter().map(|(id, light)| light.with_id(id)).collect(), the
\* iterator visiting the keys in the order keys.
collect_with_id(map, keys) ==
    [i \in DOMAIN keys |-> with_id(map[keys[i]], keys[i])]

\* get_all_lights, get_all_groups, ..., get_all_rules.
get_all ==
    /\ Idle
    /\ \E c \in Collections, transport \in TransportResults :
        /\ call' = [op |-> "get_all", name |-> c, id |-> None,
                    target |-> "LightMap"]
        /\ request' = Request("Get", <<c>>)
        /\ sent' = Sent(Request("Get", <<c>>), transport)
        /\ response' = transport
        /\ LET map == Normalized("LightMap", transport)
           IN  IF map.kind # "Ok" THEN result' = map
               ELSE \E keys \in Orders(DOMAIN map.value) :
                        result' = Ok(collect_with_id(map.value, keys))
        /\ UNCHANGED <<bridge, threads, modifierVars, linkVars>>

\* check_all looking at the last record only, as parse_response does.
check_last(responses) ==
    IF responses # <<>> /\ into_result(Last(responses)).kind # "Ok"
    THEN into_result(Last(responses))
    ELSE Ok(Unit)

\* for i in response { i.into_result()?; } Ok(()): the first Err met ends
\* the loop and is returned.
RECURSIVE check_all(_)
check_all(responses) ==
    IF responses = <<>> THEN Ok(Unit)
    ELSE IF into_result(Head(responses)).kind # "Ok"
    THEN into_result(Head(responses))
    ELSE check_all(Tail(responses))

\* A delete that reads its response through parse_response, as the reads do,
\* and then drops the value.
delete_normalized ==
    /\ Idle
    /\ \E c \in Collections, id \in Ids, transport \in TransportResults :
        /\ call' = [op |-> "delete", name |-> c, id |-> Some(id),
                    target |-> "Unit"]
        /\ request' = Request("Delete", <<c, "/", id>>)
        /\ sent' = Sent(Request("Delete", <<c, "/", id>>), transport)
        /\ response' = transport
        /\ LET json == Normalized("JsonValue", transport)
           IN  result' = IF json.kind # "Ok" THEN json ELSE Ok(Unit)
        /\ UNCHANGED <<bridge, threads, modifierVars, linkVars>>

\* delete_light, delete_group, delete_scene, delete_schedule,
\* delete_resourcelink, delete_sensor, delete_rule.
delete ==
    /\ Idle
    /\ \E c \in Collections, id \in Ids, transport \in TransportResults :
        /\ call' = [op |-> "delete", name |-> c, id |-> Some(id),
                    target |-> "Unit"]
        /\ request' = Request("Delete", <<c, "/", id>>)
        /\ sent' = Sent(Request("Delete", <<c, "/", id>>), transport)
        /\ response' = transport
        /\ LET responses == api_request("Responses", transport)
           IN  result' = IF responses.kind # "Ok" THEN responses
                         ELSE check_all(responses.value)
        /\ UNCHANGED <<bridge, threads, modifierVars, linkVars>>

\* get_config, get_capabilities, get_new_lights, get_new_sensors: the url
\* suffix each one requests.
PlainOps ==
    {[op |-> "get_config", url_suffix |-> <<"config">>],
     [op |-> "get_capabilities", url_suffix |-> <<"capabilities">>],
     [op |-> "get_new_lights", url_suffix |-> <<"lights", "/", "new">>],
     [op |-> "get_new_sensors", url_suffix |-> <<"senors", "/", "new">>]}

\* get_config, get_capabilities, get_new_lights, get_new_sensors:
\* parse_response(self.api_request(suffix, Get, None)?) for the target type
\* T of the operation (Config, Capabilities, Scan are not among the sources:
\* T ranges over the target types of the model).
get_plain ==
    /\ Idle
    /\ \E o \in PlainOps, T \in Targets, transport \in TransportResults :
        /\ call' = [op |-> "get_plain", name |-> o.op, id |-> None, target |-> T]
        /\ request' = Request("Get", o.url_suffix)
        /\ sent' = Sent(Request("Get", o.url_suffix), transport)
        /\ response' = transport
        /\ result' = Normalized(T, transport)
        /\ UNCHANGED <<bridge, threads, modifierVars, linkVars>>

(***************************************************************************)
(* resource::Modifier, resource::Creator and resource::Scanner (not among  *)
(* the sources): execute is one api_request with the value serialized as   *)
(* the body, a PUT for a modifier and a POST for a creator or a scanner.   *)
(* A request of the model is its method and its url.                       *)
(***************************************************************************)
\* Modifier::execute failing on an error record, as delete does.
Modifier_execute_checked(transport) ==
    LET responses == api_request("Responses", transport)
    IN  IF responses.kind = "Ok" /\ check_all(responses.value).kind # "Ok"
        THEN check_all(responses.value)
        ELSE responses

\* Modifier::execute: the list of outcome records as the bridge sent it.
Modifier_execute(transport) == api_request("Responses", transport)

\* Creator::execute looking for the identifier without into_result: an
\* error record is a record without identifier.
Creator_execute_unchecked(transport) ==
    LET responses == api_request("Responses", transport)
    IN  IF responses.kind # "Ok" THEN responses
        ELSE IF /\ Len(responses.value) = 1
                /\ DOMAIN responses.value[1] = {"success"}
                /\ "id" \in DOMAIN responses.value[1].success
        THEN Ok(responses.value[1].success.id)
        ELSE DecodeError

\* Creator::execute: an error record is the failure of the call, otherwise
\* the identifier is the member id of the one success record.
Creator_execute(transport) ==
    LET responses == api_request("Responses", transport)
    IN  IF responses.kind # "Ok" THEN responses
        ELSE IF check_all(responses.value).kind # "Ok"
        THEN check_all(responses.value)
        ELSE IF /\ Len(responses.value) = 1
                /\ "id" \in DOMAIN responses.value[1].success
        THEN Ok(responses.value[1].success.id)
        ELSE DecodeError

\* Scanner::execute: the scan is started unless a record is an error.
Scanner_execute(transport) ==
    LET responses == api_request("Responses", transport)
    IN  IF responses.kind # "Ok" THEN responses
        ELSE check_all(responses.value)

\* set_light_attribute, set_light_state, set_schedule, set_resourcelink
\* (and set_group_attribute, ..., set_rule): modifier.execute(self, id).
SetOps ==
    {[op |-> "set_light_attribute", collection |-> "lights"],
     [op |-> "set_light_state", collection |-> "lights"],
     [op |-> "set_schedule", collection |-> "schedules"],
     [op |-> "set_resourcelink", collection |-> "resourcelinks"]}

set ==
    /\ Idle
    /\ \E o \in SetOps, id \in Ids, transport \in TransportResults :
        /\ call' = [op |-> "set", name |-> o.op, id |-> Some(id),
                    target |-> "Responses"]
        /\ request' = Request("Put", <<o.collection, "/", id>>)
        /\ sent' = Sent(Request("Put", <<o.collection, "/", id>>), transport)
        /\ response' = transport
        /\ result' = Modifier_execute(transport)
        /\ UNCHANGED <<bridge, threads, modifierVars, linkVars>>

\* create_group, create_scene, create_schedule, create_resourcelink,
\* create_rule: creator.execute(self).
CreateOps ==
    {[op |-> "create_group", collection |-> "groups"],
     [op |-> "create_scene", collection |-> "scenes"],
     [op |-> "create_schedule", collection |-> "schedules"],
     [op |-> "create_resourcelink", collection |-> "resourcelinks"],
     [op |-> "create_rule", collection |-> "rules"]}

create ==
    /\ Idle
    /\ \E o \in CreateOps, transport \in TransportResults :
        /\ call' = [op |-> "create", name |-> o.op, id |-> None,
                    target |-> "String"]
        /\ request' = Request("Post", <<o.collection>>)
        /\ sent' = Sent(Request("Post", <<o.collection>>), transport)
        /\ response' = transport
        /\ result' = Creator_execute(transport)
        /\ UNCHANGED <<bridge, threads, modifierVars, linkVars>>

\* search_new_lights, search_new_sensors: scanner.execute(self).
SearchOps ==
    {[op |-> "search_new_lights", collection |-> "lights"],
     [op |-> "search_new_sensors", collection |-> "sensors"]}

search ==
    /\ Idle
    /\ \E o \in SearchOps, transport \in TransportResults :
        /\ call' = [op |-> "search", name |-> o.op, id |-> None,
                    target |-> "Unit"]
        /\ request' = Request("Post", <<o.collection>>)
        /\ sent' = Sent(Request("Post", <<o.collection>>), transport)
        /\ response' = transport
        /\ result' = Scanner_execute(transport)
        /\ UNCHANGED <<bridge, threads, modifierVars, linkVars>>

\* The caller takes the Result; the handle is ready for the next call.
Return ==
    /\ ~Idle
    /\ call' = NoCall
    /\ request' = NoRequest
    /\ sent' = <<>>
    /\ response' = NoResponse
    /\ result' = NoResult
    /\ UNCHANGED <<bridge, threads, modifierVars, linkVars>>

Init ==
    /\ bridge \in {Bridge_new(a, u) : a \in Addresses, u \in Usernames}
    /\ call = NoCall
    /\ request = NoRequest
    /\ sent = <<>>
    /\ response = NoResponse
    /\ result = NoResult
    /\ threads = [t \in Threads |-> IdleThread]
    /\ modifier = [ty |-> "none"]
    /\ wire = [serialized |-> FALSE, members |-> <<>>]
    /\ linkValue = None
    /\ linkInput = <<>>
    /\ linkResult = [kind |-> "none"]

Next ==
    \/ get_one
    \/ get_all
    \/ delete
    \/ get_plain
    \/ set
    \/ create
    \/ search
    \/ Return

Spec == Init /\ [][Next]_vars

(***************************************************************************)
(* bridge/mod.rs: calls of several threads on one handle.  Every method    *)
(* takes &self; a call blocks its thread in request.call() between the     *)
(* request and the response, and the other threads run meanwhile.          *)
(***************************************************************************)
\* The calls the threads make.
ConcurrentCalls ==
    {[op |-> "get_one", name |-> "lights", id |-> Some(id), target |-> "Light"] :
        id \in Ids}
    \cup {[op |-> "delete", name |-> "lights", id |-> Some("1"),
           target |-> "Unit"],
          [op |-> "set", name |-> "set_light_state", id |-> Some("1"),
           target |-> "Responses"],
          [op |-> "create", name |-> "create_group", id |-> None,
           target |-> "String"]}

\* What the transport returns to them.
ConcurrentResults ==
    {r \in TransportResults :
        \/ r.t = "transport_error"
        \/ r.t = "array" /\ Len(r.items) <= 1
        \/ r.t = "object" /\ DOMAIN r.members \subseteq {"name"}}

\* The request of a call: the one its handler hands to api_request.
RequestOf(c) ==
    CASE c.op = "get_one" ->
            Request("Get", <<c.name, "/", CHOOSE id \in c.id : TRUE>>)
      [] c.op = "delete" ->
            Request("Delete", <<c.name, "/", CHOOSE id \in c.id : TRUE>>)
      [] c.op = "set" ->
            Request("Put", <<(CHOOSE o \in SetOps : o.op = c.name).collection,
                             "/", CHOOSE id \in c.id : TRUE>>)
      [] c.op = "create" ->
            Request("Post", <<(CHOOSE o \in CreateOps : o.op = c.name).collection>>)

\* The Result of a call, given what the transport returned for its request:
\* the bodies of get_light, delete_light, set_light_state and create_group.
Outcome(c, transport) ==
    CASE c.op = "get_one" ->
            LET light == Normalized("Light", transport)
            IN  IF light.kind # "Ok" THEN light
                ELSE Ok(with_id(light.value, CHOOSE id \in c.id : TRUE))
      [] c.op = "delete" ->
            LET responses == api_request("Responses", transport)
            IN  IF responses.kind # "Ok" THEN responses
                ELSE check_all(responses.value)
      [] c.op = "set" -> Modifier_execute(transport)
      [] c.op = "create" -> Creator_execute(transport)

\* The response read from a buffer that the calls on the handle share: the
\* one another thread received, if there is one.
LocalResponse_shared(t, transport) ==
    IF \E u \in Threads \ {t} : threads[u].pc = "done"
    THEN threads[CHOOSE u \in Threads \ {t} : threads[u].pc = "done"].response
    ELSE transport

\* let response = ... request.call()?: the response of thread t's request
\* is a local of thread t's api_request.
LocalResponse(t, transport) == transport

\* Thread t enters a method of the facade and sends its request.
invoke(t) ==
    /\ threads[t].pc = "idle"
    /\ \E c \in ConcurrentCalls :
        threads' = [threads EXCEPT ![t] =
                        [pc |-> "waiting", call |-> c, request |-> RequestOf(c)]]
    /\ UNCHANGED <<bridge, call, request, sent, response, result,
                   modifierVars, linkVars>>

\* The transport returns to thread t, and the method returns its Result.
receive(t) ==
    /\ threads[t].pc = "waiting"
    /\ \E transport \in ConcurrentResults :
        threads' = [threads EXCEPT ![t] =
                        [pc |-> "done", call |-> threads[t].call,
                         request |-> threads[t].request,
                         response |-> transport,
                         result |-> Outcome(threads[t].call,
                                            LocalResponse(t, transport))]]
    /\ UNCHANGED <<bridge, call, request, sent, response, result,
                   modifierVars, linkVars>>

\* Thread t takes the Result.
take(t) ==
    /\ threads[t].pc = "done"
    /\ threads' = [threads EXCEPT ![t] = IdleThread]
    /\ UNCHANGED <<bridge, call, request, sent, response, result,
                   modifierVars, linkVars>>

NextConcurrent ==
    \E t \in Threads :
        \/ invoke(t)
        \/ receive(t)
        \/ take(t)

SpecConcurrent == Init /\ [][NextConcurrent]_vars

(***************************************************************************)
(* resource/light.rs, schedule.rs, resourcelink.rs: the modifiers.         *)
(* A modifier is [ty |-> its type, f |-> its fields], each field an        *)
(* Option.                                                                 *)
(***************************************************************************)
\* crate::resource::Adjuster (not among the sources): the tagged union of
\* the spec, Override(value) | Increment(delta).
Override(v) == [mode |-> "Override", value |-> v]
Increment(d) == [mode |-> "Increment", value |-> d]

\* Adjuster::to_override, Adjuster::to_increment: the value of that mode.
to_override(adjuster) ==
    IF adjuster.mode = "Override" THEN Some(adjuster.value) ELSE None
to_increment(adjuster) ==
    IF adjuster.mode = "Increment" THEN Some(adjuster.value) ELSE None

\* The fields of each modifier, in the order of their declaration.
ModifierFields ==
    [AttributeModifier |-> <<"name">>,
     StaticStateModifier |->
        <<"on", "brightness", "hue", "saturation", "color_space_coordinates",
          "color_temperature", "effect", "transition_time">>,
     StateModifier |->
        <<"on", "brightness", "hue", "saturation", "color_space_coordinates",
          "color_temperature", "alert", "effect", "transition_time">>,
     ScheduleModifier |->
        <<"name", "description", "action", "local_time", "status",
          "auto_delete">>,
     ResourcelinkModifier |->
        <<"name", "description", "kind", "class_id", "links">>]

ModifierTypes == DOMAIN ModifierFields

Range(s) == {s[i] : i \in DOMAIN s}

\* Modifier::new(): Self::default(), every field None.
Modifier_new(ty) ==
    [ty |-> ty, f |-> [x \in Range(ModifierFields[ty]) |-> None]]

\* The values the setters are called with.  A coordinate pair stands for a
\* pair of f32.
Colors ==
    {[space_coordinates |-> <<3, 4>>, brightness |-> None],
     [space_coordinates |-> <<5, 6>>, brightness |-> Some(200)]}

AdjusterValues ==
    [brightness |-> {Override(254), Increment(-255), Increment(-10), Increment(255)},
     hue |-> {Override(65535), Increment(-65535), Increment(65535)},
     saturation |-> {Override(254), Increment(-255), Increment(255)},
     color_space_coordinates |-> {Override(<<3, 4>>), Increment(<<-1, 1>>)},
     color_temperature |-> {Override(500), Increment(-65535), Increment(65535)}]

PlainValues ==
    [on |-> {TRUE}, brightness |-> {254}, hue |-> {65535}, saturation |-> {254},
     color_space_coordinates |-> {<<3, 4>>}, color_temperature |-> {500},
     alert |-> {"select"}, effect |-> {"colorloop"}, transition_time |-> {4},
     name |-> {"a"}, description |-> {"d"}, action |-> {"command"},
     local_time |-> {"W127/T12:00:00"}, status |-> {"enabled"},
     auto_delete |-> {FALSE}, kind |-> {"Link"}, class_id |-> {1},
     links |-> {"/lights/3"}, recycle |-> {TRUE}, owner |-> {"o"}]

SetterValues(ty, field) ==
    IF ty = "StateModifier" /\ field \in DOMAIN AdjusterValues
    THEN AdjusterValues[field] ELSE PlainValues[field]

(***************************************************************************)
(* Serialization.  The output is the sequence of the members written,      *)
(* each [key, value]: value is Some(x), or None for null.                  *)
(***************************************************************************)
\* derive(Serialize): per field, its key (rename) and whether it is left out
\* when None (skip_serializing_if = "Option::is_none").
Field(field, key) == [field |-> field, key |-> key, skip |-> TRUE]

AttributeModifierSerialize == <<Field("name", "name")>>

StaticStateModifierSerialize ==
    <<Field("on", "on"), Field("brightness", "bri"), Field("hue", "hue"),
      Field("saturation", "sat"), Field("color_space_coordinates", "xy"),
      Field("color_temperature", "ct"), Field("effect", "effect"),
      Field("transition_time", "transitiontime")>>

\* A Modifier whose status lacks skip_serializing_if.
ScheduleModifierSerialize_noskip ==
    <<Field("name", "name"), Field("description", "description"),
      Field("action", "action"), Field("local_time", "local_time"),
      [field |-> "status", key |-> "status", skip |-> FALSE],
      Field("auto_delete", "autodelete")>>

ScheduleModifierSerialize ==
    <<Field("name", "name"), Field("description", "description"),
      Field("action", "action"), Field("local_time", "local_time"),
      Field("status", "status"), Field("auto_delete", "autodelete")>>

\* schedule::Creator, resourcelink::Creator: their fields in the order of
\* the declaration.
CreatorFields ==
    [ScheduleCreator |->
        <<"name", "description", "action", "local_time", "status",
          "auto_delete", "recycle">>,
     ResourcelinkCreator |->
        <<"name", "description", "owner", "kind", "class_id", "recycle",
          "links">>]

CreatorTypes == DOMAIN CreatorFields

\* The fields of a Creator that are no Option: the arguments of new, without
\* setter (#[setters(skip)]).
RequiredFields ==
    [ScheduleCreator |-> {"action", "local_time"},
     ResourcelinkCreator |-> {"name", "class_id", "links"}]

\* schedule::Creator::new(action, local_time): the other fields None.  The
\* value of a required field is kept as Some(value), the way it is written.
Creator_new(ty, args) ==
    [ty |-> ty,
     f |-> [x \in Range(CreatorFields[ty]) |->
                IF x \in DOMAIN args THEN Some(args[x]) ELSE None]]

\* A field written whatever it holds: no skip_serializing_if.
Required(field, key) == [field |-> field, key |-> key, skip |-> FALSE]

\* derive(Serialize) of schedule::Creator: no field is renamed.
ScheduleCreatorSerialize ==
    <<Field("name", "name"), Field("description", "description"),
      Required("action", "action"), Required("local_time", "local_time"),
      Field("status", "status"), Field("auto_delete", "auto_delete"),
      Field("recycle", "recycle")>>

\* derive(Deserialize) of Schedule: the key each field is read from (id is
\* skipped).
ScheduleDeserialize ==
    [name |-> "name", description |-> "description", action |-> "command",
     local_time |-> "localtime", start_time |-> "starttime",
     status |-> "status", auto_delete |-> "autodelete"]

\* derive(Serialize) of resourcelink::Creator: class_id is renamed, kind is
\* not.
ResourcelinkCreatorSerialize ==
    <<Required("name", "name"), Field("description", "description"),
      Field("owner", "owner"), Field("kind", "kind"),
      Required("class_id", "classid"), Field("recycle", "recycle"),
      Required("links", "links")>>

\* derive(Deserialize) of Resourcelink: the key each field is read from (id
\* is skipped).
ResourcelinkDeserialize ==
    [name |-> "name", description |-> "description", owner |-> "owner",
     kind |-> "type", class_id |-> "classid", recycle |-> "recycle",
     links |-> "links"]

ResourcelinkModifierSerialize ==
    <<Field("name", "name"), Field("description", "description"),
      Field("kind", "kind"), Field("class_id", "classid"),
      Field("links", "links")>>

RECURSIVE derive_serialize(_, _)
derive_serialize(table, fields) ==
    IF table = <<>> THEN <<>>
    ELSE LET e == Head(table)
             rest == derive_serialize(Tail(table), fields)
         IN  IF e.skip /\ fields[e.field] = None THEN rest
             ELSE <<[key |-> e.key, value |-> fields[e.field]]>> \o rest

\* A row of custom_serialize!: key => (&self.field[, adjuster[, inc_type]]).
Row(key, field, adjuster, inc_type) ==
    [key |-> key, field |-> field, adjuster |-> adjuster, inc_type |-> inc_type]

\* The table with hue_inc reading the brightness field.
StateModifierSerialize_field ==
    <<Row("on", "on", "", ""),
      Row("bri", "brightness", "to_override", ""),
      Row("bri_inc", "brightness", "to_increment", "i16"),
      Row("hue", "hue", "to_override", ""),
      Row("hue_inc", "brightness", "to_increment", "i32"),
      Row("sat", "saturation", "to_override", ""),
      Row("sat_inc", "saturation", "to_increment", "i16"),
      Row("xy", "color_space_coordinates", "to_override", ""),
      Row("xy_inc", "color_space_coordinates", "to_increment_tuple", "f32"),
      Row("ct", "color_temperature", "to_override", ""),
      Row("ct_inc", "color_temperature", "to_increment", "i32"),
      Row("alert", "alert", "", ""),
      Row("effect", "effect", "", ""),
      Row("transitiontime", "transition_time", "", "")>>

\* The table with the deltas at the width of the attribute, not one rank up.
StateModifierSerialize_narrow ==
    <<Row("on", "on", "", ""),
      Row("bri", "brightness", "to_override", ""),
      Row("bri_inc", "brightness", "to_increment", "i8"),
      Row("hue", "hue", "to_override", ""),
      Row("hue_inc", "hue", "to_increment", "i16"),
      Row("sat", "saturation", "to_override", ""),
      Row("sat_inc", "saturation", "to_increment", "i8"),
      Row("xy", "color_space_coordinates", "to_override", ""),
      Row("xy_inc", "color_space_coordinates", "to_increment_tuple", "f32"),
      Row("ct", "color_temperature", "to_override", ""),
      Row("ct_inc", "color_temperature", "to_increment", "i16"),
      Row("alert", "alert", "", ""),
      Row("effect", "effect", "", ""),
      Row("transitiontime", "transition_time", "", "")>>

\* impl Serialize for StateModifier: the rows of custom_serialize!.
StateModifierSerialize ==
    <<Row("on", "on", "", ""),
      Row("bri", "brightness", "to_override", ""),
      Row("bri_inc", "brightness", "to_increment", "i16"),
      Row("hue", "hue", "to_override", ""),
      Row("hue_inc", "hue", "to_increment", "i32"),
      Row("sat", "saturation", "to_override", ""),
      Row("sat_inc", "saturation", "to_increment", "i16"),
      Row("xy", "color_space_coordinates", "to_override", ""),
      Row("xy_inc", "color_space_coordinates", "to_increment_tuple", "f32"),
      Row("ct", "color_temperature", "to_override", ""),
      Row("ct_inc", "color_temperature", "to_increment", "i32"),
      Row("alert", "alert", "", ""),
      Row("effect", "effect", "", ""),
      Row("transitiontime", "transition_time", "", "")>>

\* The bits of an integer type.
Bits == [i8 |-> 8, i16 |-> 16, i32 |-> 32]

\* value as ty: the integer of that width congruent to value; an f32 is
\* kept as it is.  Every integer of the model fits 32 bits.
Cast(value, ty) ==
    IF ty \notin DOMAIN Bits \/ Bits[ty] >= 32 THEN value
    ELSE ((value + 2^(Bits[ty] - 1)) % 2^Bits[ty]) - 2^(Bits[ty] - 1)

\* custom_serialize! (not among the sources), by the rule table of the
\* spec: a row writes its key when the field is set and, for a row with an
\* adjuster, when the field is in that mode; an increment is written at the
\* row's type.
custom_row(e, fields) ==
    IF fields[e.field] = None THEN <<>>
    ELSE LET x == CHOOSE x \in fields[e.field] : TRUE
         IN  CASE e.adjuster = "" -> <<[key |-> e.key, value |-> Some(x)]>>
               [] e.adjuster = "to_override" ->
                    IF to_override(x) = None THEN <<>>
                    ELSE <<[key |-> e.key, value |-> Some(x.value)]>>
               [] e.adjuster = "to_increment" ->
                    IF to_increment(x) = None THEN <<>>
                    ELSE <<[key |-> e.key,
                            value |-> Some(Cast(x.value, e.inc_type))]>>
               [] e.adjuster = "to_increment_tuple" ->
                    IF to_increment(x) = None THEN <<>>
                    ELSE <<[key |-> e.key,
                            value |-> Some(<<Cast(x.value[1], e.inc_type),
                                             Cast(x.value[2], e.inc_type)>>)]>>

RECURSIVE custom_serialize(_, _)
custom_serialize(table, fields) ==
    IF table = <<>> THEN <<>>
    ELSE custom_row(Head(table), fields) \o custom_serialize(Tail(table), fields)

\* serde_json::to_value(modifier).
Serialize(m) ==
    CASE m.ty = "StateModifier" -> custom_serialize(StateModifierSerialize, m.f)
      [] m.ty = "AttributeModifier" -> derive_serialize(AttributeModifierSerialize, m.f)
      [] m.ty = "StaticStateModifier" -> derive_serialize(StaticStateModifierSerialize, m.f)
      [] m.ty = "ScheduleModifier" -> derive_serialize(ScheduleModifierSerialize, m.f)
      [] m.ty = "ResourcelinkModifier" -> derive_serialize(ResourcelinkModifierSerialize, m.f)
      [] m.ty = "ScheduleCreator" -> derive_serialize(ScheduleCreatorSerialize, m.f)
      [] m.ty = "ResourcelinkCreator" -> derive_serialize(ResourcelinkCreatorSerialize, m.f)

NoModifier == [ty |-> "none"]
NotSerialized == [serialized |-> FALSE]

\* AttributeModifier::new, StaticStateModifier::new, StateModifier::new,
\* schedule::Modifier::new, resourcelink::Modifier::new.
new ==
    /\ modifier = NoModifier
    /\ \E ty \in ModifierTypes : modifier' = Modifier_new(ty)
    /\ wire' = NotSerialized
    /\ UNCHANGED <<bridgeVars, linkVars>>

\* derive(Setters) with strip_option and prefix "with_": with_<field>(value)
\* returns the modifier with that field Some(value).
with_field ==
    /\ modifier.ty \in ModifierTypes
    /\ \E field \in Range(ModifierFields[modifier.ty]) :
        \E value \in SetterValues(modifier.ty, field) :
            modifier' = [modifier EXCEPT !.f[field] = Some(value)]
    /\ wire' = NotSerialized
    /\ UNCHANGED <<bridgeVars, linkVars>>

\* schedule::Creator::new(action, local_time).
Creator_new_schedule ==
    /\ modifier = NoModifier
    /\ \E action \in PlainValues["action"], local_time \in PlainValues["local_time"] :
        modifier' = Creator_new("ScheduleCreator",
                                [action |-> action, local_time |-> local_time])
    /\ wire' = NotSerialized
    /\ UNCHANGED <<bridgeVars, linkVars>>

\* resourcelink::Creator::new(name, class_id, links).
Creator_new_resourcelink ==
    /\ modifier = NoModifier
    /\ \E name \in PlainValues["name"], class_id \in PlainValues["class_id"],
          links \in PlainValues["links"] :
        modifier' = Creator_new("ResourcelinkCreator",
                                [name |-> name, class_id |-> class_id,
                                 links |-> links])
    /\ wire' = NotSerialized
    /\ UNCHANGED <<bridgeVars, linkVars>>

\* derive(Setters) of a Creator: with_<field>(value) for the fields that are
\* not skipped.
Creator_with_field ==
    /\ modifier.ty \in CreatorTypes
    /\ \E field \in Range(CreatorFields[modifier.ty]) \ RequiredFields[modifier.ty] :
        \E value \in PlainValues[field] :
            modifier' = [modifier EXCEPT !.f[field] = Some(value)]
    /\ wire' = NotSerialized
    /\ UNCHANGED <<bridgeVars, linkVars>>

\* StaticStateModifier::with_color.
StaticStateModifier_with_color ==
    /\ modifier.ty = "StaticStateModifier"
    /\ \E value \in Colors :
        LET m == [modifier EXCEPT
                    !.f["color_space_coordinates"] = Some(value.space_coordinates)]
        IN  modifier' =
                IF value.brightness # None
                THEN [m EXCEPT !.f["brightness"] = value.brightness]
                ELSE m
    /\ wire' = NotSerialized
    /\ UNCHANGED <<bridgeVars, linkVars>>

\* StateModifier::with_color assigning the color's brightness whether the
\* color carries one or not.
StateModifier_with_color_overwrite ==
    /\ modifier.ty = "StateModifier"
    /\ \E value \in Colors :
        modifier' = [modifier EXCEPT
                        !.f["color_space_coordinates"] =
                            Some(Override(value.space_coordinates)),
                        !.f["brightness"] =
                            {Override(b) : b \in value.brightness}]
    /\ wire' = NotSerialized
    /\ UNCHANGED <<bridgeVars, linkVars>>

\* StateModifier::with_color.
StateModifier_with_color ==
    /\ modifier.ty = "StateModifier"
    /\ \E value \in Colors :
        LET m == [modifier EXCEPT
                    !.f["color_space_coordinates"] =
                        Some(Override(value.space_coordinates))]
        IN  modifier' =
                IF value.brightness # None
                THEN [m EXCEPT !.f["brightness"] =
                        {Override(b) : b \in value.brightness}]
                ELSE m
    /\ wire' = NotSerialized
    /\ UNCHANGED <<bridgeVars, linkVars>>

\* The modifier is serialized, as Modifier::execute does for the request body.
serialize ==
    /\ modifier # NoModifier
    /\ wire = NotSerialized
    /\ wire' = [serialized |-> TRUE, members |-> Serialize(modifier)]
    /\ UNCHANGED <<modifier, bridgeVars, linkVars>>

NextModifier ==
    \/ new
    \/ with_field
    \/ Creator_new_schedule
    \/ Creator_new_resourcelink
    \/ Creator_with_field
    \/ StaticStateModifier_with_color
    \/ StateModifier_with_color
    \/ serialize

SpecModifier == Init /\ [][NextModifier]_vars

(***************************************************************************)
(* resource/resourcelink.rs: Link.  A string is the sequence of its        *)
(* symbols: the separator "/" and words, each word standing for its        *)
(* characters.                                                             *)
(***************************************************************************)
Words ==
    {"groups", "lights", "resourcelinks", "rules", "scenes", "schedules",
     "sensors", "unknowns", "3"}

\* The segments of the input strings: empty, or one word.
Segments == {<<>>} \cup {<<w>> : w \in Words}

RECURSIVE Join(_)
Join(segments) ==
    IF Len(segments) = 1 THEN segments[1]
    ELSE segments[1] \o <<"/">> \o Join(Tail(segments))

\* The strings decoded: up to MaxSegments segments joined by "/".
LinkStrings ==
    {Join(segments) : segments \in UNION {[1..n -> Segments] : n \in 1..MaxSegments}}

\* value.split('/').collect(): the substrings between the separators, at
\* least one.
RECURSIVE split(_)
split(value) ==
    IF \A i \in DOMAIN value : value[i] # "/" THEN <<value>>
    ELSE LET i == CHOOSE i \in DOMAIN value :
                    value[i] = "/" /\ \A j \in 1..(i - 1) : value[j] # "/"
         IN  <<SubSeq(value, 1, i - 1)>> \o split(SubSeq(value, i + 1, Len(value)))

\* LinkKind::from_str with a kind for every string.
LinkKind_from_str_default(value) ==
    CASE value = <<"groups">> -> Some("Group")
      [] value = <<"lights">> -> Some("Light")
      [] value = <<"resourcelinks">> -> Some("Resourcelink")
      [] value = <<"rules">> -> Some("Rule")
      [] value = <<"scenes">> -> Some("Scene")
      [] value = <<"schedules">> -> Some("Schedule")
      [] value = <<"sensors">> -> Some("Sensor")
      [] OTHER -> Some("Light")

\* LinkKind::from_str.
LinkKind_from_str(value) ==
    CASE value = <<"groups">> -> Some("Group")
      [] value = <<"lights">> -> Some("Light")
      [] value = <<"resourcelinks">> -> Some("Resourcelink")
      [] value = <<"rules">> -> Some("Rule")
      [] value = <<"scenes">> -> Some("Scene")
      [] value = <<"schedules">> -> Some("Schedule")
      [] value = <<"sensors">> -> Some("Sensor")
      [] OTHER -> None

\* D::Error::custom(message).
LinkError(message) == [kind |-> "DecodeError", message |-> message]
ExpectedFormat == <<"expected link in the format /<kind>/<id>">>

\* <Link as Deserialize>::deserialize, given the string.
Link_from_string(value) ==
    LET values == split(value)
        id_str == values[Len(values)]
        values1 == SubSeq(values, 1, Len(values) - 1)
    IN  IF values = <<>> THEN LinkError(ExpectedFormat)
        ELSE IF values1 = <<>> THEN LinkError(ExpectedFormat)
        ELSE LET kind_str == values1[Len(values1)]
             IN  IF LinkKind_from_str(kind_str) = None
                 THEN LinkError(<<"invalid link type '">> \o kind_str \o <<"'">>)
                 ELSE Ok([kind |-> CHOOSE k \in LinkKind_from_str(kind_str) : TRUE,
                          id |-> id_str])

NoLinkResult == [kind |-> "none"]

\* A string from outside is decoded.
Link_deserialize ==
    /\ linkResult = NoLinkResult
    /\ linkValue = None
    /\ \E value \in LinkStrings :
        /\ linkInput' = value
        /\ linkResult' = Link_from_string(value)
    /\ UNCHANGED <<linkValue, bridgeVars, modifierVars>>

\* LinkKind::to_str with the collection of scenes for a schedule.
LinkKind_to_str_scenes(kind) ==
    CASE kind = "Group" -> <<"groups">>
      [] kind = "Light" -> <<"lights">>
      [] kind = "Resourcelink" -> <<"resourcelinks">>
      [] kind = "Rule" -> <<"rules">>
      [] kind = "Scene" -> <<"scenes">>
      [] kind = "Schedule" -> <<"scenes">>
      [] kind = "Sensor" -> <<"sensors">>

\* LinkKind::to_str.
LinkKind_to_str(kind) ==
    CASE kind = "Group" -> <<"groups">>
      [] kind = "Light" -> <<"lights">>
      [] kind = "Resourcelink" -> <<"resourcelinks">>
      [] kind = "Rule" -> <<"rules">>
      [] kind = "Scene" -> <<"scenes">>
      [] kind = "Schedule" -> <<"schedules">>
      [] kind = "Sensor" -> <<"sensors">>

\* The variants of LinkKind.
LinkKinds ==
    {"Group", "Light", "Resourcelink", "Rule", "Scene", "Schedule", "Sensor"}

\* The Links serialized: a kind and an id without separator.
Links == {[kind |-> k, id |-> id] : k \in LinkKinds, id \in Segments}

\* <Link as Serialize>::serialize: format!("/{}/{}", kind.to_str(), id).
Link_to_string(link) ==
    <<"/">> \o LinkKind_to_str(link.kind) \o <<"/">> \o link.id

\* A Link is serialized.
Link_serialize ==
    /\ linkResult = NoLinkResult
    /\ linkValue = None
    /\ \E link \in Links :
        /\ linkValue' = Some(link)
        /\ linkInput' = Link_to_string(link)
    /\ UNCHANGED <<linkResult, bridgeVars, modifierVars>>

\* The string a Link was serialized to is decoded.
Link_deserialize_serialized ==
    /\ linkResult = NoLinkResult
    /\ linkValue # None
    /\ linkResult' = Link_from_string(linkInput)
    /\ UNCHANGED <<linkValue, linkInput, bridgeVars, modifierVars>>

\* The caller takes the Link or the error.
Link_return ==
    /\ linkResult # NoLinkResult
    /\ linkValue' = None
    /\ linkInput' = <<>>
    /\ linkResult' = NoLinkResult
    /\ UNCHANGED <<bridgeVars, modifierVars>>

NextLink ==
    \/ Link_deserialize
    \/ Link_serialize
    \/ Link_deserialize_serialized
    \/ Link_return

SpecLink == Init /\ [][NextLink]_vars

(***************************************************************************)
(* The response normalizer and the facade: properties.                     *)
(***************************************************************************)
\* The call went through parse_response.
Normalizing == call.op \in {"get_one", "get_all", "get_plain"}

\* The response is an array each of whose items is an outcome record.
IsRecordArray ==
    /\ response.t = "array"
    /\ \A i \in DOMAIN response.items : IsResponse(response.items[i])

IsError(item) == DOMAIN item = {"error"}
IsSuccess(item) == DOMAIN item = {"success"}

\* The Bridge Error that carries the members of an error record.
ErrorOf(item) ==
    [kind |-> "BridgeError", type |-> item.error.type,
     address |-> item.error.address, description |-> item.error.description]

\* The positions of the error records of the response.
ErrorPositions == {i \in DOMAIN response.items : IsError(response.items[i])}

\* C1: when the payload is a non-empty array of outcome records whose last
\* record is an error, a call through parse_response fails with the Bridge
\* Error carrying that record's type, address and description (so the
\* payload is not decoded into T).
C1_LastErrorFails ==
    (/\ Normalizing
     /\ IsRecordArray
     /\ Len(response.items) > 0
     /\ IsError(Last(response.items)))
    => result = ErrorOf(Last(response.items))

\* A call whose response ends with an error record that differs from the
\* first record, and that failed with a Bridge Error.
C1_Witness ==
    /\ call.op = "get_plain"
    /\ call.target = "JsonValue"
    /\ IsRecordArray
    /\ Len(response.items) = 3
    /\ IsError(response.items[1])
    /\ IsSuccess(response.items[2])
    /\ IsError(response.items[3])
    /\ response.items[1] # response.items[3]
    /\ result.kind = "BridgeError"

\* C2: a delete fails with the Bridge Error of the first error record of
\* the response array, wherever it stands, and succeeds only if no record
\* is an error.
C2_DeleteFirstError ==
    (call.op = "delete" /\ IsRecordArray)
    => /\ ErrorPositions = {} => result = Ok(Unit)
       /\ ErrorPositions # {} =>
            \E i \in ErrorPositions :
                /\ \A j \in ErrorPositions : i <= j
                /\ result = ErrorOf(response.items[i])
       /\ result.kind = "Ok" => ErrorPositions = {}

\* A delete whose response holds an error between two successes, and one
\* whose response holds two different errors, failed.
C2_Witness ==
    /\ call.op = "delete"
    /\ IsRecordArray
    /\ Len(response.items) = 3
    /\ IsSuccess(response.items[1])
    /\ IsError(response.items[2])
    /\ IsSuccess(response.items[3])
    /\ result.kind = "BridgeError"

\* The decode of an array of outcome records into the target type T.
DecodedArray(T, json) ==
    CASE T = "JsonValue" -> Ok(json)
      [] T = "Responses" -> Ok(json.items)
      [] OTHER -> DecodeError

\* C3: parse_response looks at the last record only: when the payload is a
\* non-empty array of outcome records whose last record is a success, no
\* Bridge Error is raised, whatever the earlier records are, and the
\* outcome is the decode of the payload into T; a delete fails on the same
\* array when an earlier record is an error.
C3_OnlyLastInspected ==
    (/\ IsRecordArray
     /\ Len(response.items) > 0
     /\ IsSuccess(Last(response.items)))
    => /\ Normalizing => result = DecodedArray(call.target, response)
       /\ (call.op = "delete" /\ ErrorPositions # {})
            => result.kind = "BridgeError"

\* A call through parse_response whose response holds an error before its
\* last record, a success, and that returned the decoded array.
C3_Witness ==
    /\ call.op = "get_plain"
    /\ call.target = "Responses"
    /\ IsRecordArray
    /\ Len(response.items) >= 2
    /\ IsError(response.items[1])
    /\ IsSuccess(Last(response.items))
    /\ result = Ok(response.items)

\* C4: when the payload is an empty array or no array of outcome records,
\* parse_response returns the decode of the payload as it came into T: a
\* value of T or a Decode error, never a Bridge Error.
C4_FallThroughDecodes ==
    (/\ Normalizing
     /\ response.t \in {"array", "object", "map"}
     /\ ~IsRecordArray \/ response.items = <<>>)
    => /\ result.kind \in {"Ok", "DecodeError"}
       /\ call.op = "get_plain" => result = from_value(call.target, response)
       /\ (call.op = "get_plain" /\ call.target = "JsonValue")
            => result = Ok(response)
       /\ (call.target = "Light" /\ response.t # "object")
            => result = DecodeError

\* A bare resource object was decoded into a Light.
C4_Witness ==
    /\ call.op = "get_plain"
    /\ call.target = "Light"
    /\ response.t = "object"
    /\ "productname" \in DOMAIN response.members
    /\ result.kind = "Ok"
    /\ result.value.name = response.members["name"]

\* C5: a get-one that succeeds returns a resource whose id is the requested
\* id, whatever the body holds (a member "id" included), and whose other
\* attributes are those of the body.
C5_GetOneInjectsId ==
    (call.op = "get_one" /\ result.kind = "Ok")
    => /\ response.t = "object"
       /\ Some(result.value.id) = call.id
       /\ result.value.name = response.members["name"]
       /\ result.value.product_name =
            {response.members[k] : k \in {"productname"} \cap DOMAIN response.members}

\* A get-one succeeded on a body that carries a member "id" of its own.
C5_Witness ==
    /\ call.op = "get_one"
    /\ result.kind = "Ok"
    /\ "id" \in DOMAIN response.members
    /\ Some(response.members["id"]) # call.id

\* C6: a get-all that succeeds returns one member per key of the response
\* mapping: the ids of the members are the keys, none twice, and each
\* member holds the attributes of the body under its own key; it succeeds
\* whenever every body of the mapping decodes.
C6_GetAllOnePerKey ==
    (call.op = "get_all" /\ response.t = "map")
    => LET keys == DOMAIN response.entries
           decodes == \A k \in keys : "name" \in DOMAIN response.entries[k]
       IN  /\ decodes <=> result.kind = "Ok"
           /\ result.kind = "Ok" =>
                /\ Len(result.value) = Cardinality(keys)
                /\ {result.value[i].id : i \in DOMAIN result.value} = keys
                /\ \A i \in DOMAIN result.value :
                     LET body == response.entries[result.value[i].id]
                     IN  /\ result.value[i].name = body["name"]
                         /\ result.value[i].product_name =
                              {body[k] : k \in {"productname"} \cap DOMAIN body}

\* A get-all returned two members whose bodies differ.
C6_Witness ==
    /\ call.op = "get_all"
    /\ response.t = "map"
    /\ result.kind = "Ok"
    /\ Len(result.value) = 2
    /\ result.value[1].name # result.value[2].name

(***************************************************************************)
(* The modifiers: properties.                                              *)
(***************************************************************************)
\* The five adjustable fields of StateModifier and the key of each.
BaseKey ==
    [brightness |-> "bri", hue |-> "hue", saturation |-> "sat",
     color_space_coordinates |-> "xy", color_temperature |-> "ct"]
IncKey == [f \in DOMAIN BaseKey |-> BaseKey[f] \o "_inc"]

\* The key each field of each modifier is written under when it is set.
WireKey ==
    [AttributeModifier |-> [name |-> "name"],
     StaticStateModifier |->
        [on |-> "on", brightness |-> "bri", hue |-> "hue", saturation |-> "sat",
         color_space_coordinates |-> "xy", color_temperature |-> "ct",
         effect |-> "effect", transition_time |-> "transitiontime"],
     StateModifier |->
        [on |-> "on", brightness |-> "bri", hue |-> "hue", saturation |-> "sat",
         color_space_coordinates |-> "xy", color_temperature |-> "ct",
         alert |-> "alert", effect |-> "effect",
         transition_time |-> "transitiontime"],
     ScheduleModifier |->
        [name |-> "name", description |-> "description", action |-> "action",
         local_time |-> "local_time", status |-> "status",
         auto_delete |-> "autodelete"],
     ResourcelinkModifier |->
        [name |-> "name", description |-> "description", kind |-> "kind",
         class_id |-> "classid", links |-> "links"]]

\* The mode of an adjustable field of the StateModifier.
ModeOf(field) ==
    IF modifier.f[field] = None THEN "Unset"
    ELSE (CHOOSE x \in modifier.f[field] : TRUE).mode

\* The members written under a key, and the keys written.
MembersAt(key) == {i \in DOMAIN wire.members : wire.members[i].key = key}
WrittenKeys == {wire.members[i].key : i \in DOMAIN wire.members}

\* C7: each adjustable field of a StateModifier is in exactly one of the
\* modes unset, override, increment, and its serialization writes for the
\* field no key, the base key alone, or the _inc key alone: never both.
C7_OneModePerField ==
    modifier.ty = "StateModifier" =>
        \A f \in DOMAIN BaseKey :
            /\ Cardinality(modifier.f[f]) <= 1
            /\ ModeOf(f) \in {"Unset", "Override", "Increment"}
            /\ wire.serialized =>
                /\ ModeOf(f) = "Unset" =>
                     MembersAt(BaseKey[f]) = {} /\ MembersAt(IncKey[f]) = {}
                /\ ModeOf(f) = "Override" =>
                     /\ Cardinality(MembersAt(BaseKey[f])) = 1
                     /\ MembersAt(IncKey[f]) = {}
                /\ ModeOf(f) = "Increment" =>
                     /\ MembersAt(BaseKey[f]) = {}
                     /\ Cardinality(MembersAt(IncKey[f])) = 1
                /\ ~(BaseKey[f] \in WrittenKeys /\ IncKey[f] \in WrittenKeys)

\* A serialized StateModifier with a field in each of the three modes.
C7_Witness ==
    /\ modifier.ty = "StateModifier"
    /\ wire.serialized
    /\ ModeOf("brightness") = "Increment"
    /\ ModeOf("hue") = "Override"
    /\ ModeOf("saturation") = "Unset"
    /\ "bri_inc" \in WrittenKeys
    /\ "hue" \in WrittenKeys

\* The fields of the modifier that are set.
SetFields == {f \in DOMAIN modifier.f : modifier.f[f] # None}

\* The key a set field is to be written under.
ExpectedKey(f) ==
    IF modifier.ty = "StateModifier" /\ f \in DOMAIN BaseKey
       /\ ModeOf(f) = "Increment"
    THEN WireKey[modifier.ty][f] \o "_inc"
    ELSE WireKey[modifier.ty][f]

\* C8: a modifier of any of the five types writes exactly the keys of its
\* set fields, one member per set field and none for an unset one; with
\* every field unset it writes the empty object.
C8_OnlySetFieldsWritten ==
    (modifier.ty \in ModifierTypes /\ wire.serialized) =>
        /\ WrittenKeys = {ExpectedKey(f) : f \in SetFields}
        /\ Len(wire.members) = Cardinality(SetFields)
        /\ \A i \in DOMAIN wire.members : wire.members[i].value # None
        /\ SetFields = {} => wire.members = <<>>

\* A serialized schedule Modifier with set and unset fields.
C8_Witness ==
    /\ modifier.ty = "ScheduleModifier"
    /\ wire.serialized
    /\ SetFields = {"name", "auto_delete"}
    /\ WrittenKeys = {"name", "autodelete"}

\* The deltas an increment of a field may carry.
DeltaRange ==
    [brightness |-> -255..255, saturation |-> -255..255,
     hue |-> -65535..65535, color_temperature |-> -65535..65535]

\* The values of the type the delta of a field is written at.
DeltaType ==
    [brightness |-> -32768..32767, saturation |-> -32768..32767,
     hue |-> -2147483647..2147483647,
     color_temperature |-> -2147483647..2147483647]

\* C9: an increment of brightness or saturation by a delta of -255..255,
\* or of hue or color temperature by a delta of -65535..65535, is written
\* under the _inc key as that very delta, a value of the wider signed type.
C9_IncrementExact ==
    (modifier.ty = "StateModifier" /\ wire.serialized) =>
        \A f \in DOMAIN DeltaRange :
            ModeOf(f) = "Increment" =>
                \A x \in modifier.f[f] :
                    x.value \in DeltaRange[f] =>
                        \A i \in MembersAt(IncKey[f]) :
                            /\ wire.members[i].value = Some(x.value)
                            /\ wire.members[i].value \subseteq DeltaType[f]

\* Brightness incremented by -10 and hue by -65535, serialized.
C9_Witness ==
    /\ modifier.ty = "StateModifier"
    /\ wire.serialized
    /\ modifier.f["brightness"] = Some(Increment(-10))
    /\ modifier.f["hue"] = Some(Increment(-65535))
    /\ \E i \in MembersAt("bri_inc") : wire.members[i].value = Some(-10)
    /\ \E i \in MembersAt("hue_inc") : wire.members[i].value = Some(-65535)

(***************************************************************************)
(* Link: properties.                                                       *)
(***************************************************************************)
\* The kind each collection name stands for.
KindOfSegment ==
    [groups |-> "Group", lights |-> "Light", resourcelinks |-> "Resourcelink",
     rules |-> "Rule", scenes |-> "Scene", schedules |-> "Schedule",
     sensors |-> "Sensor"]

\* C10: a string /<segment>/<id> decodes to the Link of the kind the segment
\* names and of that id when the segment is one of the seven collection
\* names, and to a decode error naming the segment otherwise: never to a
\* Link of some default kind, and the decoder always returns.
C10_LinkDecode ==
    linkResult # NoLinkResult =>
        /\ linkResult.kind \in {"Ok", "DecodeError"}
        /\ \A segment, id \in Segments :
            linkInput = <<"/">> \o segment \o <<"/">> \o id =>
                IF \E w \in DOMAIN KindOfSegment : segment = <<w>>
                THEN linkResult =
                        Ok([kind |-> KindOfSegment[segment[1]], id |-> id])
                ELSE /\ linkResult.kind = "DecodeError"
                     /\ linkResult.message =
                            <<"invalid link type '">> \o segment \o <<"'">>

\* /unknowns/3 was refused with an error naming unknowns.
C10_Witness ==
    /\ linkInput = <<"/", "unknowns", "/", "3">>
    /\ linkResult.kind = "DecodeError"
    /\ linkResult.message = <<"invalid link type '", "unknowns", "'">>

\* /lights/3 was decoded to the Link of kind Light and id 3.
C10_WitnessLight ==
    /\ linkInput = <<"/", "lights", "/", "3">>
    /\ linkResult = Ok([kind |-> "Light", id |-> <<"3">>])

(***************************************************************************)
(* The facade: requests and outcomes.                                      *)
(***************************************************************************)
\* C11: a facade call puts exactly one request on the wire, the one it
\* built, whether it ends in success, in a transport error, in a decode
\* error or in a bridge error: no second request follows a failure, and the
\* transport's error is returned as the transport gave it.
C11_OneRequest ==
    /\ Idle => sent = <<>>
    /\ ~Idle =>
        /\ Len(sent) = 1
        /\ sent[1] = request
        /\ result.kind \in {"Ok", "TransportError", "DecodeError", "BridgeError"}
        /\ response.t = "transport_error" <=> result.kind = "TransportError"
        /\ response.t = "transport_error" => result.cause = response.cause

\* A get-one met a timeout of the transport and returned it after its one
\* request.
C11_Witness ==
    /\ call.op = "get_one"
    /\ response.t = "transport_error"
    /\ response.cause = "timeout"
    /\ result = [kind |-> "TransportError", cause |-> "timeout"]
    /\ Len(sent) = 1

\* The base path of the handle, and the collection a read or a delete is
\* about.
BasePath == <<"http://", bridge.ip_address, "/api/", bridge.username>>
OwnCollection ==
    CASE call.name = "get_config" -> "config"
      [] call.name = "get_capabilities" -> "capabilities"
      [] call.name = "get_new_lights" -> "lights"
      [] call.name = "get_new_sensors" -> "sensors"
      [] OTHER -> call.name

\* C12: a read or a delete requests the base path http://<address>/api/
\* <username> followed by the collection of its own resource kind, then /<id>
\* for a get-one or a delete and /new for get_new_lights and
\* get_new_sensors: no operation requests another collection than its own.
C12_OwnCollection ==
    call.op \in {"get_one", "get_all", "delete", "get_plain"} =>
        /\ request.url[1] = BasePath
        /\ request.url[2] = "/"
        /\ request.url[3] =
            CASE call.op \in {"get_one", "delete"} ->
                    <<OwnCollection, "/", CHOOSE id \in call.id : TRUE>>
              [] call.name \in {"get_new_lights", "get_new_sensors"} ->
                    <<OwnCollection, "/", "new">>
              [] OTHER -> <<OwnCollection>>

\* C13: a set-attributes or set-state call whose response is an array of
\* outcome records returns that array, every record in its place, error
\* records included; the call fails only with the transport's error or, when
\* the payload is no array of outcome records, with a decode error: never
\* with a Bridge Error.
C13_SetReturnsRecords ==
    call.op = "set" =>
        /\ IsRecordArray => result = Ok(response.items)
        /\ result.kind \in {"Ok", "TransportError", "DecodeError"}
        /\ result.kind = "TransportError" <=> response.t = "transport_error"
        /\ result.kind = "DecodeError" <=>
            (response.t # "transport_error" /\ ~IsRecordArray)

\* set_light_state was answered a success and two different errors, and
\* returned the three records.
C13_Witness ==
    /\ call.op = "set"
    /\ call.name = "set_light_state"
    /\ IsRecordArray
    /\ Len(response.items) = 3
    /\ IsSuccess(response.items[1])
    /\ IsError(response.items[2])
    /\ IsError(response.items[3])
    /\ response.items[2] # response.items[3]
    /\ result = Ok(response.items)

\* C15: a create whose response is an array of one outcome record returns
\* the string under id of the record's success value when the record is a
\* success that carries one, and fails with the Bridge Error of the record,
\* returning no identifier, when the record is an error.
C15_CreateReturnsId ==
    (call.op = "create" /\ IsRecordArray /\ Len(response.items) = 1)
    => LET record == response.items[1]
       IN  /\ (IsSuccess(record) /\ "id" \in DOMAIN record.success)
                => result = Ok(record.success.id)
           /\ IsError(record) => result = ErrorOf(record)
           /\ result.kind = "Ok" => IsSuccess(record)

\* create_resourcelink was answered [{"success": {"id": "5"}}] and returned
\* "5".
C15_Witness ==
    /\ call.op = "create"
    /\ call.name = "create_resourcelink"
    /\ response = [t |-> "array", items |-> <<[success |-> [id |-> "5"]]>>]
    /\ result = Ok("5")

\* C19: a delete reads its response as an array of outcome records, not
\* through parse_response: it succeeds on the empty array, and on a payload
\* that is no array of outcome records, a bare object for one, it fails with
\* a decode error: it neither succeeds nor reports a Bridge Error.
C19_DeleteDecodes ==
    call.op = "delete" =>
        /\ (response.t = "array" /\ response.items = <<>>) => result = Ok(Unit)
        /\ (response.t # "transport_error" /\ ~IsRecordArray)
                => result = DecodeError

\* A delete was answered a bare object and failed with a decode error.
C19_Witness ==
    /\ call.op = "delete"
    /\ response.t = "object"
    /\ "name" \in DOMAIN response.members
    /\ result = DecodeError

(***************************************************************************)
(* The shared handle: properties.                                          *)
(***************************************************************************)
\* The threads whose call has returned.
Done == {t \in Threads : threads[t].pc = "done"}

\* C14: whatever the interleaving of the calls of the threads on the shared
\* handle, the handle is never modified: no step changes it, and its base
\* path is http://<address>/api/<username> of its own address and username;
\* no call waits on another call: a thread that is idle can enter a method
\* and a thread that waits for its response can take it, whatever the other
\* threads are at; and the Result of a call is the one its own arguments and
\* its own response give.
C14_SharedHandle ==
    /\ [][bridge' = bridge]_vars
    /\ [](/\ bridge.api_url =
                <<"http://", bridge.ip_address, "/api/", bridge.username>>
          /\ \A t \in Threads :
                /\ threads[t].pc = "idle" => ENABLED invoke(t)
                /\ threads[t].pc = "waiting" => ENABLED receive(t)
                /\ threads[t].pc = "done" => ENABLED take(t)
          /\ \A t \in Done :
                /\ threads[t].request.url[1] = bridge.api_url
                /\ threads[t].result =
                        Outcome(threads[t].call, threads[t].response)
          /\ \A t, u \in Done :
                (/\ threads[t].call = threads[u].call
                 /\ threads[t].response = threads[u].response)
                => threads[t].result = threads[u].result)

\* Two threads made the same get-one on the handle; one was answered a
\* light and has it, the other an error of the transport and has that.
C14_Witness ==
    /\ Done = Threads
    /\ threads["t1"].call = threads["t2"].call
    /\ threads["t1"].call.op = "get_one"
    /\ threads["t1"].result.kind = "Ok"
    /\ threads["t2"].result.kind = "TransportError"

\* The strings /<segment>/<id>, and those among them whose segment is the
\* name of a collection.
HasLinkShape(value) ==
    \E segment, id \in Segments : value = <<"/">> \o segment \o <<"/">> \o id
InLinkFormat(value) ==
    \E w \in DOMAIN KindOfSegment, id \in Segments :
        value = <<"/", w, "/">> \o id

\* C16: the strings decoded to a Link are exactly the strings /<kind>/<id>
\* whose kind is the name of a collection; a string of another shape, one
\* without the leading slash (lights/3), with segments before the kind
\* (/x/lights/3), without separator (3) or empty, is refused with the decode
\* error that states the expected format.
C16_StrictFormat ==
    linkResult # NoLinkResult =>
        /\ linkResult.kind = "Ok" <=> InLinkFormat(linkInput)
        /\ ~HasLinkShape(linkInput) =>
                linkResult = [kind |-> "DecodeError", message |-> ExpectedFormat]

\* C17: a Link of any of the seven kinds, with an id that holds no
\* separator, is serialized to /<collection>/<id> where the collection is
\* the name from_str reads as the Link's kind, and decoding that string gives
\* the Link back; from_str(to_str(k)) is k for every kind k, and to_str gives
\* two kinds two different names.
C17_LinkRoundTrip ==
    /\ \A k \in LinkKinds : LinkKind_from_str(LinkKind_to_str(k)) = {k}
    /\ \A k, l \in LinkKinds : LinkKind_to_str(k) = LinkKind_to_str(l) => k = l
    /\ \A link \in linkValue :
        /\ \E w \in DOMAIN KindOfSegment :
            /\ KindOfSegment[w] = link.kind
            /\ linkInput = <<"/", w, "/">> \o link.id
        /\ linkResult # NoLinkResult =>
            linkResult = [kind |-> "Ok", value |-> link]

\* The Link of kind Schedule and id 3 was serialized to /schedules/3, and
\* that string was decoded to it.
C17_Witness ==
    /\ linkValue = {[kind |-> "Schedule", id |-> <<"3">>]}
    /\ linkInput = <<"/", "schedules", "/", "3">>
    /\ linkResult = [kind |-> "Ok", value |-> [kind |-> "Schedule", id |-> <<"3">>]]

(***************************************************************************)
(* The modifiers: with_color.                                              *)
(***************************************************************************)
\* The value of a field of a light's state set to x with_color: an override
\* for a StateModifier, x itself for a StaticStateModifier.
Overriding(x) ==
    IF modifier.ty = "StateModifier"
    THEN {[mode |-> "Override", value |-> x]} ELSE {x}

\* C18: with_color, on a StateModifier and on a StaticStateModifier, sets
\* color_space_coordinates to the override of the color's coordinates,
\* whatever it held (an override, an increment or nothing), sets brightness
\* to the override of the color's brightness if the color carries one and
\* leaves brightness as it was otherwise, and leaves every other field (on,
\* hue, saturation, color_temperature, alert, effect, transition_time) as it
\* was.
C18_WithColorFrame ==
    [][(StateModifier_with_color \/ StaticStateModifier_with_color)
       => /\ modifier'.ty = modifier.ty
          /\ DOMAIN modifier'.f = DOMAIN modifier.f
          /\ \A field \in DOMAIN modifier.f \
                    {"color_space_coordinates", "brightness"} :
                modifier'.f[field] = modifier.f[field]
          /\ \E value \in Colors :
                /\ modifier'.f["color_space_coordinates"] =
                        Overriding(value.space_coordinates)
                /\ \A b \in value.brightness :
                        modifier'.f["brightness"] = Overriding(b)
                /\ value.brightness = {} =>
                        modifier'.f["brightness"] = modifier.f["brightness"]
      ]_vars

\* A StateModifier whose coordinates and brightness are those of the color
\* that carries a brightness, with its hue still the increment set by
\* with_hue and its light still switched on.
C18_Witness ==
    /\ modifier.ty = "StateModifier"
    /\ modifier.f["color_space_coordinates"] =
            {[mode |-> "Override", value |-> <<5, 6>>]}
    /\ modifier.f["brightness"] = {[mode |-> "Override", value |-> 200]}
    /\ modifier.f["hue"] = {[mode |-> "Increment", value |-> 65535]}
    /\ modifier.f["on"] = {TRUE}

(***************************************************************************)
(* Schedules: the keys written and the keys read.                          *)
(***************************************************************************)
\* C20: every attribute of a schedule that its Creator or its Modifier
\* writes (name, description, command, localtime, status, autodelete) is
\* written under the key Schedule decodes that attribute from, with the
\* value it was set to.
C20_ScheduleKeys ==
    (modifier.ty \in {"ScheduleCreator", "ScheduleModifier"} /\ wire.serialized)
    => \A f \in SetFields \cap DOMAIN ScheduleDeserialize :
            \E i \in DOMAIN wire.members :
                /\ wire.members[i].key = ScheduleDeserialize[f]
                /\ wire.members[i].value = modifier.f[f]

(***************************************************************************)
(* Resourcelinks: the keys written and the keys read.                      *)
(***************************************************************************)
\* C21: every attribute of a resourcelink that its Creator or its Modifier
\* writes (name, description, owner, type, classid, recycle, links) is
\* written under the key Resourcelink decodes that attribute from, with the
\* value it was set to; and a Creator as Creator::new built it, no setter
\* applied, writes exactly the keys name, classid and links.
C21_ResourcelinkKeys ==
    (/\ modifier.ty \in {"ResourcelinkCreator", "ResourcelinkModifier"}
     /\ wire.serialized)
    => /\ \A f \in SetFields \cap DOMAIN ResourcelinkDeserialize :
            \E i \in DOMAIN wire.members :
                /\ wire.members[i].key = ResourcelinkDeserialize[f]
                /\ wire.members[i].value = modifier.f[f]
       /\ (/\ modifier.ty = "ResourcelinkCreator"
           /\ SetFields = {"name", "class_id", "links"})
          => /\ WrittenKeys = {"name", "classid", "links"}
             /\ Len(wire.members) = 3

=============================================================================
